---- MODULE Spec2Model ----
(***************************************************************************)
(* The call scheduler of node-sqlite3's Database object (src/database.cc). *)
(*                                                                         *)
(* All of Database's bookkeeping (open, closing, locked, pending,          *)
(* serialize, queue) is touched on one owning thread.  That thread runs    *)
(* the public methods and the completion handlers, and inside them it      *)
(* calls back into user code (TRY_CATCH_CALL, EMIT_EVENT); user code may   *)
(* call any public method again before it returns.  The owning thread is   *)
(* therefore modelled with an explicit call stack.  The frame on top is    *)
(* the thread's position:                                                  *)
(*   "js"    user code (a callback or an event listener) is running;       *)
(*   "body"  Schedule or Process is about to call an operation's body;     *)
(*   "out"   a public method is returning its outcome to user code.        *)
(* The frames below are the continuations of the C++ functions that are    *)
(* suspended in a call.  Every step runs the C++ code from one of these    *)
(* positions to the next; nothing else can happen on the owning thread     *)
(* until its stack is empty again.                                         *)
(***************************************************************************)
EXTENDS Integers, Sequences, FiniteSets, TLC

\* Number of operations (batons) that are passed to Schedule in one run.
MaxOps == 3
\* Number of scoped serialize(fn)/parallelize(fn) calls that may be nested.
MaxScoped == 2

\* The options the model's user passes to configure().
TriedOptions == {"trace", "busyTimeout", "other"}
ExclusiveKinds == {"close", "exec", "loadExtension", "wait"}
ConfigOptions == {"trace", "profile", "busyTimeout", "limit", "change"}

VARIABLES
    open,          \* Database::open
    closing,       \* Database::closing
    locked,        \* Database::locked
    pending,       \* Database::pending
    serialize,     \* Database::serialize
    queue,         \* Database::queue, a sequence of Call records
    debug_trace,   \* Database::debug_trace   # NULL
    debug_profile, \* Database::debug_profile # NULL
    update_event,  \* Database::update_event  # NULL
    stack,         \* the owning thread's call stack, top first
    inflight,      \* batons submitted to the thread pool, not yet completed
    nextId,        \* the id the next baton gets (arrival order)
    aborted,       \* an assert() failed
    skipped        \* handlers that have returned without calling Process()

vars == <<open, closing, locked, pending, serialize, queue, debug_trace,
          debug_profile, update_event, stack, inflight, nextId, aborted,
          skipped>>

\* The current state as one record, so that the C++ functions can be
\* written as operators from state to state.
S ==
    [open |-> open, closing |-> closing, locked |-> locked,
     pending |-> pending, serialize |-> serialize, queue |-> queue,
     debug_trace |-> debug_trace, debug_profile |-> debug_profile,
     update_event |-> update_event, stack |-> stack, inflight |-> inflight,
     nextId |-> nextId, aborted |-> aborted, skipped |-> skipped]

Becomes(s) ==
    /\ open' = s.open
    /\ closing' = s.closing
    /\ locked' = s.locked
    /\ pending' = s.pending
    /\ serialize' = s.serialize
    /\ queue' = s.queue
    /\ debug_trace' = s.debug_trace
    /\ debug_profile' = s.debug_profile
    /\ update_event' = s.update_event
    /\ stack' = s.stack
    /\ inflight' = s.inflight
    /\ nextId' = s.nextId
    /\ aborted' = s.aborted
    /\ skipped' = s.skipped

(***************************************************************************)
(* Batons and calls.  id is the arrival order, cb whether a completion     *)
(* callback was supplied, excl the exclusive flag the operation runs       *)
(* under (Call::exclusive, or Schedule's argument when it is run at once). *)
(* must and passed are the observer's notes: whether the operation was     *)
(* exclusive or serialize was on when it came to Schedule, and whether a   *)
(* later operation of the same class has started while this one was        *)
(* waiting in the queue.  early notes that the operation came to Schedule  *)
(* while open was still false.                                             *)
(***************************************************************************)
NoCall ==
    [id |-> 0, kind |-> "none", cb |-> FALSE, excl |-> FALSE, must |-> FALSE,
     passed |-> FALSE, early |-> FALSE]

(***************************************************************************)
(* Stack frames.  k is the position, h the function it belongs to, v a     *)
(* saved local (before, called, the baton's status; in a "ret" frame:      *)
(* whether the handler has called Process()), n the number of frames under *)
(* a "js" frame that are the rest of the function that made the call,      *)
(* call the baton concerned, via/arg how and with what user code is        *)
(* called, g the observer's note of serialize before a scoped call.        *)
(***************************************************************************)
Frame(k, h, v) ==
    [k |-> k, h |-> h, v |-> v, n |-> 0, g |-> FALSE, call |-> NoCall,
     via |-> "-", arg |-> "-"]

Push(s, f) == [s EXCEPT !.stack = <<f>> \o @]

\* TRY_CATCH_CALL(context, callback, argc, argv): user code gets control.
TRY_CATCH_CALL(s, h, n, call, via, arg) ==
    Push(s, [Frame("js", h, FALSE) EXCEPT !.n = n, !.call = call,
                                          !.via = via, !.arg = arg])

\* EMIT_EVENT(obj, argc, argv): the listeners of the event get control.
EMIT_EVENT(s, h, n, call, arg) == TRY_CATCH_CALL(s, h, n, call, "event", arg)

\* Whether TRY_CATCH_CALL leaves the calling C++ function when the callback
\* threw.  macros.h is not part of the sources at hand; the specification
\* has the mode restored and Process() called "even if scopedFn throws".
ThrowLeavesCaller(threw) == FALSE

\* assert(cond)
Require(s, cond) == IF cond THEN s ELSE [s EXCEPT !.aborted = TRUE]

\* CREATE_WORK(name, workerFn, afterFn): the baton goes to the thread pool.
CREATE_WORK(s, baton) == [s EXCEPT !.inflight = @ \cup {baton}]

\* The frame of handler h, whose last statement is meant to be
\* db->Process(): it notes whether Process() has been called.
Handler(s, h) == Push(s, Frame("ret", h, FALSE))

\* Handler h returns.
Returned(s, h, called) ==
    IF called THEN s ELSE [s EXCEPT !.skipped = @ \cup {h}]

(***************************************************************************)
(* The bodies Schedule and Process dispatch.                               *)
(***************************************************************************)
RemoveCallbacks(s) ==
    [s EXCEPT !.debug_trace = FALSE, !.debug_profile = FALSE,
              !.update_event = FALSE]

\* Work_BeginClose without "db->closing = true".
Work_BeginClose_NotMarked(s, baton) ==
    LET a == Require(s, s.locked /\ s.open /\ s.pending = 0)
        b == RemoveCallbacks([a EXCEPT !.pending = @ + 1])
    IN  CREATE_WORK(b, baton)

Work_BeginClose(s, baton) ==
    LET a == Require(s, s.locked /\ s.open /\ s.pending = 0)
        b == RemoveCallbacks([a EXCEPT !.pending = @ + 1])
    IN  CREATE_WORK([b EXCEPT !.closing = TRUE], baton)

\* Work_BeginExec without pending++.
Work_BeginExec_NotCounted(s, baton) ==
    LET a == Require(s, s.locked /\ s.open /\ s.pending = 0)
    IN  CREATE_WORK(a, baton)

Work_BeginExec(s, baton) ==
    LET a == Require(s, s.locked /\ s.open /\ s.pending = 0)
    IN  CREATE_WORK([a EXCEPT !.pending = @ + 1], baton)

Work_BeginLoadExtension(s, baton) ==
    LET a == Require(s, s.locked /\ s.open /\ s.pending = 0)
    IN  CREATE_WORK([a EXCEPT !.pending = @ + 1], baton)

\* Work_Wait runs on the owning thread: it calls the callback and then
\* Process().
Work_Wait(s, baton) ==
    LET a == Require(s, s.locked /\ s.open /\ s.pending = 0)
        b == Push(Handler(a, "Work_Wait"),
                  Frame("call_process", "Work_Wait", TRUE))
    IN  IF baton.cb
        THEN TRY_CATCH_CALL(b, "Work_Wait", 1, baton, "callback", "null")
        ELSE b

\* A statement's work (prepare, run, ...): scheduled non-exclusively by the
\* statement layer, which is not part of the sources at hand.
Work_BeginStatement(s, baton) ==
    LET a == Require(s, s.open)
    IN  CREATE_WORK([a EXCEPT !.pending = @ + 1], baton)

SetBusyTimeout(s, baton) == Require(s, s.open)

SetLimit(s, baton) == Require(s, s.open)

RegisterTraceCallback(s, baton) ==
    [Require(s, s.open) EXCEPT !.debug_trace = ~@]

RegisterProfileCallback(s, baton) ==
    [Require(s, s.open) EXCEPT !.debug_profile = ~@]

RegisterUpdateCallback(s, baton) ==
    [Require(s, s.open) EXCEPT !.update_event = ~@]

\* call->callback(call->baton) in Process, callback(baton) in Schedule
Body(s, baton) ==
    CASE baton.kind = "close" -> Work_BeginClose(s, baton)
      [] baton.kind = "exec" -> Work_BeginExec(s, baton)
      [] baton.kind = "loadExtension" -> Work_BeginLoadExtension(s, baton)
      [] baton.kind = "wait" -> Work_Wait(s, baton)
      [] baton.kind = "statement" -> Work_BeginStatement(s, baton)
      [] baton.kind = "busyTimeout" -> SetBusyTimeout(s, baton)
      [] baton.kind = "limit" -> SetLimit(s, baton)
      [] baton.kind = "trace" -> RegisterTraceCallback(s, baton)
      [] baton.kind = "profile" -> RegisterProfileCallback(s, baton)
      [] baton.kind = "change" -> RegisterUpdateCallback(s, baton)

\* The position right before a body is called; by is "Schedule" or "Process".
CallBody(s, call, by) == Push(s, [Frame("body", by, FALSE) EXCEPT !.call = call])

\* Schedule deciding to queue on (exclusive || serialize) && pending > 0,
\* the lock of an exclusive operation in flight forgotten.
Schedule_LockIgnored(s, baton, exclusive) ==
    IF ~s.open /\ s.locked
    THEN IF baton.cb
         THEN TRY_CATCH_CALL(s, "Schedule", 0, baton, "callback", "closed")
         ELSE EMIT_EVENT(s, "Schedule", 0, baton, "closed")
    ELSE IF ~s.open \/ ((exclusive \/ s.serialize) /\ s.pending > 0)
         THEN [s EXCEPT !.queue =
                  Append(@, [baton EXCEPT !.excl = exclusive \/ s.serialize])]
         ELSE CallBody([s EXCEPT !.locked = exclusive],
                       [baton EXCEPT !.excl = exclusive], "Schedule")

\* Schedule without its branch for the closed connection: the call is
\* queued like any call made while the connection is not open.
Schedule_ClosedQueued(s, baton, exclusive) ==
    IF ~s.open \/ ((s.locked \/ exclusive \/ s.serialize) /\ s.pending > 0)
    THEN [s EXCEPT !.queue =
             Append(@, [baton EXCEPT !.excl = exclusive \/ s.serialize])]
    ELSE CallBody([s EXCEPT !.locked = exclusive],
                  [baton EXCEPT !.excl = exclusive], "Schedule")

\* Schedule that does not look at open before it runs a body.
Schedule_OpenIgnored(s, baton, exclusive) ==
    IF ~s.open /\ s.locked
    THEN IF baton.cb
         THEN TRY_CATCH_CALL(s, "Schedule", 0, baton, "callback", "closed")
         ELSE EMIT_EVENT(s, "Schedule", 0, baton, "closed")
    ELSE IF (s.locked \/ exclusive \/ s.serialize) /\ s.pending > 0
         THEN [s EXCEPT !.queue =
                  Append(@, [baton EXCEPT !.excl = exclusive \/ s.serialize])]
         ELSE CallBody([s EXCEPT !.locked = exclusive],
                       [baton EXCEPT !.excl = exclusive], "Schedule")

\* Schedule that does not look at serialize before it runs a body.
Schedule_SerializeIgnored(s, baton, exclusive) ==
    IF ~s.open /\ s.locked
    THEN IF baton.cb
         THEN TRY_CATCH_CALL(s, "Schedule", 0, baton, "callback", "closed")
         ELSE EMIT_EVENT(s, "Schedule", 0, baton, "closed")
    ELSE IF ~s.open \/ ((s.locked \/ exclusive) /\ s.pending > 0)
         THEN [s EXCEPT !.queue =
                  Append(@, [baton EXCEPT !.excl = exclusive \/ s.serialize])]
         ELSE CallBody([s EXCEPT !.locked = exclusive],
                       [baton EXCEPT !.excl = exclusive], "Schedule")

(***************************************************************************)
(* Database::Schedule                                                      *)
(***************************************************************************)
Schedule(s, baton, exclusive) ==
    IF ~s.open /\ s.locked
    THEN IF baton.cb
         THEN TRY_CATCH_CALL(s, "Schedule", 0, baton, "callback", "closed")
         ELSE EMIT_EVENT(s, "Schedule", 0, baton, "closed")
    ELSE IF ~s.open \/ ((s.locked \/ exclusive \/ s.serialize) /\ s.pending > 0)
         THEN [s EXCEPT !.queue =
                  Append(@, [baton EXCEPT !.excl = exclusive \/ s.serialize])]
         ELSE CallBody([s EXCEPT !.locked = exclusive],
                       [baton EXCEPT !.excl = exclusive], "Schedule")

(***************************************************************************)
(* Database::Process.  Both of its loops can call user code in the middle  *)
(* of an iteration, so each is written as the step taken at the loop head. *)
(***************************************************************************)
\* while (!queue.empty()) { ... }  if (!called) { emit "error" }  return;
Flush(s, called) ==
    IF s.queue # <<>>
    THEN LET call == Head(s.queue)
             a == [s EXCEPT !.queue = Tail(@)]
         IN  IF call.cb
             THEN TRY_CATCH_CALL(Push(a, Frame("flush", "Process", TRUE)),
                                 "Process", 1, call, "callback", "closed")
             ELSE Push(a, Frame("flush", "Process", called))
    ELSE IF ~called
         THEN EMIT_EVENT(s, "Process", 0, NoCall, "closed")
         ELSE s

\* The loop of Process without "if (c->exclusive && pending > 0) break;".
Drain_NoBreak(s) ==
    IF s.open /\ (~s.locked \/ s.pending = 0) /\ s.queue # <<>>
    THEN LET c == Head(s.queue) IN
         CallBody(Push([s EXCEPT !.queue = Tail(@), !.locked = c.excl],
                       Frame("drained", "Process", FALSE)),
                  c, "Process")
    ELSE s

\* while (open && (!locked || pending == 0) && !queue.empty()) { ... }
Drain(s) ==
    IF s.open /\ (~s.locked \/ s.pending = 0) /\ s.queue # <<>>
    THEN LET c == Head(s.queue) IN
         IF c.excl /\ s.pending > 0
         THEN s
         ELSE CallBody(Push([s EXCEPT !.queue = Tail(@), !.locked = c.excl],
                            Frame("drained", "Process", FALSE)),
                       c, "Process")
    ELSE s

\* if (locked) break;
Drained(s) == IF s.locked THEN s ELSE Drain(s)

Process(s) ==
    IF ~s.open /\ s.locked /\ s.queue # <<>>
    THEN Flush(s, FALSE)
    ELSE Drain(s)

\* db->Process() as the statement that ends handler h: the handler's "ret"
\* frame, right below, notes the call.
CallProcess(s, h) ==
    LET a == IF s.stack # <<>> /\ Head(s.stack).k = "ret" /\ Head(s.stack).h = h
             THEN [s EXCEPT !.stack[1].v = TRUE]
             ELSE s
    IN  Process(a)

(***************************************************************************)
(* Completion handlers: the Work_After* functions, run on the owning       *)
(* thread when the thread pool has finished a baton's work.  ok is         *)
(* baton->status == SQLITE_OK.                                             *)
(***************************************************************************)
Work_AfterOpen(s, baton, ok) ==
    LET a == [s EXCEPT !.inflight = @ \ {baton},
                       !.open = IF ok THEN TRUE ELSE @]
        b == Push(Handler(a, "Work_AfterOpen"),
                  Frame("after_open", "Work_AfterOpen", ok))
    IN  IF baton.cb
        THEN TRY_CATCH_CALL(b, "Work_AfterOpen", 1, baton, "callback",
                            IF ok THEN "null" ELSE "engine")
        ELSE IF ~a.open
             THEN EMIT_EVENT(b, "Work_AfterOpen", 1, baton, "engine")
             ELSE b

\* if (db->open) { EMIT_EVENT("open"); db->Process(); }
Work_AfterOpen_Tail(s) ==
    IF s.open
    THEN EMIT_EVENT(Push(s, Frame("call_process", "Work_AfterOpen", TRUE)),
                    "Work_AfterOpen", 1, NoCall, "open")
    ELSE s

\* Work_AfterClose marking the connection closed whatever the status.
Work_AfterClose_AlwaysClosed(s, baton, ok) ==
    LET a == [s EXCEPT !.inflight = @ \ {baton},
                       !.pending = @ - 1,
                       !.closing = FALSE,
                       !.open = FALSE]
        b == Push(Handler(a, "Work_AfterClose"),
                  Frame("after_close", "Work_AfterClose", ok))
    IN  IF baton.cb
        THEN TRY_CATCH_CALL(b, "Work_AfterClose", 1, baton, "callback",
                            IF ok THEN "null" ELSE "engine")
        ELSE IF a.open
             THEN EMIT_EVENT(b, "Work_AfterClose", 1, baton, "engine")
             ELSE b

\* Work_AfterClose releasing the lock when the close has succeeded.
Work_AfterClose_Unlocked(s, baton, ok) ==
    LET a == [s EXCEPT !.inflight = @ \ {baton},
                       !.pending = @ - 1,
                       !.closing = FALSE,
                       !.open = IF ok THEN FALSE ELSE @,
                       !.locked = IF ok THEN FALSE ELSE @]
        b == Push(Handler(a, "Work_AfterClose"),
                  Frame("after_close", "Work_AfterClose", ok))
    IN  IF baton.cb
        THEN TRY_CATCH_CALL(b, "Work_AfterClose", 1, baton, "callback",
                            IF ok THEN "null" ELSE "engine")
        ELSE IF a.open
             THEN EMIT_EVENT(b, "Work_AfterClose", 1, baton, "engine")
             ELSE b

\* Database::Work_AfterClose up to the callback or the "error" event.
Work_AfterClose(s, baton, ok) ==
    LET a == [s EXCEPT !.inflight = @ \ {baton},
                       !.pending = @ - 1,
                       !.closing = FALSE,
                       !.open = IF ok THEN FALSE ELSE @]
        b == Push(Handler(a, "Work_AfterClose"),
                  Frame("after_close", "Work_AfterClose", ok))
    IN  IF baton.cb
        THEN TRY_CATCH_CALL(b, "Work_AfterClose", 1, baton, "callback",
                            IF ok THEN "null" ELSE "engine")
        ELSE IF a.open
             THEN EMIT_EVENT(b, "Work_AfterClose", 1, baton, "engine")
             ELSE b

\* if (!db->open) { EMIT_EVENT("close"); db->Process(); }
Work_AfterClose_Tail(s) ==
    IF ~s.open
    THEN EMIT_EVENT(Push(s, Frame("call_process", "Work_AfterClose", TRUE)),
                    "Work_AfterClose", 1, NoCall, "close")
    ELSE s

\* The completion handler that reports a failure to the callback only.
AfterWork_NoErrorEvent(s, baton, ok, h) ==
    LET a == [s EXCEPT !.inflight = @ \ {baton}, !.pending = @ - 1]
        b == Push(Handler(a, h), Frame("call_process", h, ok))
    IN  IF baton.cb
        THEN TRY_CATCH_CALL(b, h, 1, baton, "callback",
                            IF ok THEN "null" ELSE "engine")
        ELSE b

\* The shape Work_AfterExec and Work_AfterLoadExtension share: pending--,
\* the callback or the "error" event, then Process().
AfterWork(s, baton, ok, h) ==
    LET a == [s EXCEPT !.inflight = @ \ {baton}, !.pending = @ - 1]
        b == Push(Handler(a, h), Frame("call_process", h, ok))
    IN  IF ~ok
        THEN IF baton.cb
             THEN TRY_CATCH_CALL(b, h, 1, baton, "callback", "engine")
             ELSE EMIT_EVENT(b, h, 1, baton, "engine")
        ELSE IF baton.cb
             THEN TRY_CATCH_CALL(b, h, 1, baton, "callback", "null")
             ELSE b

Work_AfterExec(s, baton, ok) == AfterWork(s, baton, ok, "Work_AfterExec")

Work_AfterLoadExtension(s, baton, ok) ==
    AfterWork(s, baton, ok, "Work_AfterLoadExtension")

\* The completion of a statement's work: pending--, the callback, Process().
Work_AfterStatement(s, baton, ok) ==
    AfterWork(s, baton, ok, "Work_AfterStatement")

(***************************************************************************)
(* Public methods.                                                         *)
(***************************************************************************)
\* new Baton(db, callback)
NewBaton(s, kind, cb) ==
    [id |-> s.nextId, kind |-> kind, cb |-> cb, excl |-> FALSE,
     must |-> (kind \in ExclusiveKinds) \/ s.serialize, passed |-> FALSE,
     early |-> ~s.open]

Alloc(s) == [s EXCEPT !.nextId = @ + 1]

Close(s, cb) == Schedule(Alloc(s), NewBaton(s, "close", cb), TRUE)

Exec(s, cb) == Schedule(Alloc(s), NewBaton(s, "exec", cb), TRUE)

Wait(s, cb) == Schedule(Alloc(s), NewBaton(s, "wait", cb), TRUE)

LoadExtension(s, cb) ==
    Schedule(Alloc(s), NewBaton(s, "loadExtension", cb), TRUE)

\* A statement method: Schedule(body, baton), exclusive left to its default.
StatementMethod(s, cb) ==
    Schedule(Alloc(s), NewBaton(s, "statement", cb), FALSE)

\* The scoped call going on to Process() with the mode left as it is.
Serialize_NotRestored(s, before, h) ==
    Push(s, Frame("call_process", h, TRUE))

\* db->serialize = before; and then db->Process();
Serialize_Restore(s, before, h) ==
    Push([s EXCEPT !.serialize = before], Frame("call_process", h, TRUE))

Serialize(s, fn) ==
    LET before == s.serialize
        a == Handler([s EXCEPT !.serialize = TRUE], "Serialize")
    IN  IF fn
        THEN TRY_CATCH_CALL(Push(a, Frame("restore", "Serialize", before)),
                            "Serialize", 1, NoCall, "scoped", "-")
        ELSE Push(a, Frame("call_process", "Serialize", TRUE))

Parallelize(s, fn) ==
    LET before == s.serialize
        a == Handler([s EXCEPT !.serialize = FALSE], "Parallelize")
    IN  IF fn
        THEN TRY_CATCH_CALL(Push(a, Frame("restore", "Parallelize", before)),
                            "Parallelize", 1, NoCall, "scoped", "-")
        ELSE Push(a, Frame("call_process", "Parallelize", TRUE))

\* option is info[0]; argsOk says whether the values that must be numbers
\* are numbers.  The baton has no callback (handle is empty).  A call that
\* throws a TypeError returns before anything is scheduled.
Configure(s, option, argsOk) ==
    IF option \in ConfigOptions /\ (option \in {"busyTimeout", "limit"} => argsOk)
    THEN Schedule(Push(Handler(Alloc(s), "Configure"),
                       Frame("call_process", "Configure", TRUE)),
                  NewBaton(s, option, FALSE), FALSE)
    ELSE s

\* Interrupt without its check of closing.
Interrupt_ClosingIgnored(s) ==
    Push(s, [Frame("out", "Interrupt", FALSE) EXCEPT !.arg =
                IF ~s.open THEN "Database is not open"
                ELSE "sqlite3_interrupt"])

\* Throws when the database is not open or is closing, else calls
\* sqlite3_interrupt; the outcome is left on the stack for the caller.
Interrupt(s) ==
    Push(s, [Frame("out", "Interrupt", FALSE) EXCEPT !.arg =
                IF ~s.open THEN "Database is not open"
                ELSE IF s.closing THEN "Database is closing"
                ELSE "sqlite3_interrupt"])

(***************************************************************************)
(* The owning thread.                                                      *)
(***************************************************************************)
Visible == {"js", "body", "out"}

\* One continuation frame: the rest of the C++ function it belongs to.
Step(s) ==
    LET f == Head(s.stack)
        r == [s EXCEPT !.stack = Tail(@)]
    IN  CASE f.k = "call_process" -> CallProcess(r, f.h)
          [] f.k = "flush" -> Flush(r, f.v)
          [] f.k = "drained" -> Drained(r)
          [] f.k = "restore" -> Serialize_Restore(r, f.v, f.h)
          [] f.k = "after_open" -> Work_AfterOpen_Tail(r)
          [] f.k = "after_close" -> Work_AfterClose_Tail(r)
          [] f.k = "ret" -> Returned(r, f.h, f.v)

\* Run the C++ code up to the next visible position or the empty stack.
RECURSIVE Run(_)
Run(s) ==
    IF s.aborted \/ s.stack = <<>> THEN s
    ELSE IF Head(s.stack).k \in Visible THEN s
    ELSE Run(Step(s))

\* User code returns (or throws) to the C++ function that called it.
Return(s, threw) ==
    LET f == Head(s.stack)
        r == [s EXCEPT !.stack = Tail(@)]
    IN  IF ThrowLeavesCaller(threw)
        THEN [r EXCEPT !.stack = SubSeq(@, f.n + 1, Len(@))]
        ELSE r

\* The observer's note, in the frame of a scoped callback, of the mode
\* before the call.
Noted(s, mode) ==
    IF s.stack # <<>> /\ Head(s.stack).k = "js" /\ Head(s.stack).via = "scoped"
    THEN [s EXCEPT !.stack[1].g = mode]
    ELSE s

\* The observer's note on the calls that are still waiting when a later
\* call of their class starts.
SameClass(c, d) == (c.kind \in ExclusiveKinds) = (d.kind \in ExclusiveKinds)

Overtaken(s, call) ==
    [s EXCEPT !.queue =
        [i \in DOMAIN @ |->
            IF @[i].id < call.id /\ SameClass(@[i], call)
            THEN [@[i] EXCEPT !.passed = TRUE]
            ELSE @[i]]]

Top == IF stack = <<>> THEN "idle" ELSE Head(stack).k

\* User code may call a public method: from the event loop, or from inside
\* a callback or listener.
UserRuns == ~aborted /\ Top \in {"idle", "js"}

Idle == ~aborted /\ Top = "idle"

Scopes == Cardinality({i \in DOMAIN stack : stack[i].k = "restore"})

Init ==
    /\ open = FALSE
    /\ closing = FALSE
    /\ locked = FALSE
    /\ pending = 0
    /\ serialize = FALSE
    /\ queue = <<>>
    /\ debug_trace = FALSE
    /\ debug_profile = FALSE
    /\ update_event = FALSE
    /\ stack = <<>>
    /\ \E cb \in BOOLEAN : inflight = {[NoCall EXCEPT !.kind = "open", !.cb = cb]}
    /\ nextId = 1
    /\ aborted = FALSE
    /\ skipped = {}

CloseCall ==
    /\ UserRuns /\ nextId <= MaxOps
    /\ \E cb \in BOOLEAN : Becomes(Run(Close(S, cb)))

ExecCall ==
    /\ UserRuns /\ nextId <= MaxOps
    /\ \E cb \in BOOLEAN : Becomes(Run(Exec(S, cb)))

WaitCall ==
    /\ UserRuns /\ nextId <= MaxOps
    /\ \E cb \in BOOLEAN : Becomes(Run(Wait(S, cb)))

LoadExtensionCall ==
    /\ UserRuns /\ nextId <= MaxOps
    /\ \E cb \in BOOLEAN : Becomes(Run(LoadExtension(S, cb)))

StatementCall ==
    /\ UserRuns /\ nextId <= MaxOps
    /\ \E cb \in BOOLEAN : Becomes(Run(StatementMethod(S, cb)))

ConfigureCall ==
    /\ UserRuns /\ nextId <= MaxOps
    /\ \E option \in TriedOptions, argsOk \in BOOLEAN :
          Becomes(Run(Configure(S, option, argsOk)))

\* serialize() anywhere in user code, serialize(fn) from the event loop.
SerializeCall ==
    /\ UserRuns
    /\ \E fn \in BOOLEAN :
          /\ fn => Top = "idle"
          /\ Becomes(Run(Noted(Serialize(S, fn), serialize)))

ParallelizeCall ==
    /\ UserRuns
    /\ \E fn \in BOOLEAN :
          /\ fn => Top = "idle"
          /\ Becomes(Run(Noted(Parallelize(S, fn), serialize)))

\* serialize(fn) and parallelize(fn) anywhere in user code, nested too.
ScopedSerializeCall ==
    /\ UserRuns /\ Scopes < MaxScoped
    /\ Becomes(Run(Noted(Serialize(S, TRUE), serialize)))

ScopedParallelizeCall ==
    /\ UserRuns /\ Scopes < MaxScoped
    /\ Becomes(Run(Noted(Parallelize(S, TRUE), serialize)))

\* interrupt() from the event loop.
InterruptCall ==
    /\ Idle
    /\ Becomes(Interrupt(S))

\* User code returns to the C++ function that called it.
JsReturn ==
    /\ ~aborted /\ Top = "js"
    /\ \E threw \in BOOLEAN : Becomes(Run(Return(S, threw)))

\* The body on top of the stack is called.
BodyStart ==
    /\ ~aborted /\ Top = "body"
    /\ LET call == Head(stack).call
           r == [S EXCEPT !.stack = Tail(@)]
       IN  Becomes(Run(Body(Overtaken(r, call), call)))

\* The public method on top of the stack returns to its caller.
MethodReturn ==
    /\ ~aborted /\ Top = "out"
    /\ Becomes(Run([S EXCEPT !.stack = Tail(@)]))

OpenDone ==
    /\ Idle
    /\ \E b \in inflight, ok \in BOOLEAN :
          b.kind = "open" /\ Becomes(Run(Work_AfterOpen(S, b, ok)))

CloseDone ==
    /\ Idle
    /\ \E b \in inflight, ok \in BOOLEAN :
          b.kind = "close" /\ Becomes(Run(Work_AfterClose(S, b, ok)))

ExecDone ==
    /\ Idle
    /\ \E b \in inflight, ok \in BOOLEAN :
          b.kind = "exec" /\ Becomes(Run(Work_AfterExec(S, b, ok)))

LoadExtensionDone ==
    /\ Idle
    /\ \E b \in inflight, ok \in BOOLEAN :
          b.kind = "loadExtension"
          /\ Becomes(Run(Work_AfterLoadExtension(S, b, ok)))

StatementDone ==
    /\ Idle
    /\ \E b \in inflight, ok \in BOOLEAN :
          b.kind = "statement" /\ Becomes(Run(Work_AfterStatement(S, b, ok)))

Next ==
    \/ CloseCall
    \/ ExecCall
    \/ WaitCall
    \/ LoadExtensionCall
    \/ StatementCall
    \/ ConfigureCall
    \/ SerializeCall
    \/ ParallelizeCall
    \/ InterruptCall
    \/ JsReturn
    \/ BodyStart
    \/ MethodReturn
    \/ OpenDone
    \/ CloseDone
    \/ ExecDone
    \/ LoadExtensionDone
    \/ StatementDone

Spec == Init /\ [][Next]_vars

\* The mode toggles in full (scoped calls from inside callbacks and nested
\* in one another), with wait() as the operation Process() finds queued.
ModeNext ==
    \/ WaitCall
    \/ SerializeCall
    \/ ParallelizeCall
    \/ ScopedSerializeCall
    \/ ScopedParallelizeCall
    \/ JsReturn
    \/ BodyStart
    \/ OpenDone

ModeSpec == Init /\ [][ModeNext]_vars

\* db.serialize() is called before anything is scheduled, and the mode is
\* never turned off: no parallelize, and serialize(fn), which sets the mode
\* back to what it was, only when it is on already.
SerializeOn ==
    /\ UserRuns
    /\ Becomes(Run(Serialize(S, FALSE)))

SerialNext ==
    \/ SerializeOn
    \/ serialize /\ ScopedSerializeCall
    \/ serialize /\ CloseCall
    \/ serialize /\ ExecCall
    \/ serialize /\ WaitCall
    \/ serialize /\ LoadExtensionCall
    \/ serialize /\ StatementCall
    \/ serialize /\ ConfigureCall
    \/ InterruptCall
    \/ JsReturn
    \/ BodyStart
    \/ MethodReturn
    \/ OpenDone
    \/ CloseDone
    \/ ExecDone
    \/ LoadExtensionDone
    \/ StatementDone

SerialSpec == Init /\ [][SerialNext]_vars

TypeOK ==
    /\ open \in BOOLEAN /\ closing \in BOOLEAN /\ locked \in BOOLEAN
    /\ pending \in 0..MaxOps /\ serialize \in BOOLEAN
    /\ nextId \in 1..(MaxOps + 1)
    /\ aborted = FALSE

(***************************************************************************)
(* Vocabulary of the properties.                                           *)
(***************************************************************************)
\* The operations in flight (the constructor's open is no operation of the
\* scheduler: it is not counted in pending).
Ops == {b \in inflight : b.kind # "open"}

TopFrame == Head(stack)

\* Schedule or Process is about to call the body of TopFrame.call.
Starting == Top = "body"

\* a is what is left of the stack b under the frames b has on top.
Suffix(a, b) ==
    Len(a) <= Len(b) /\ SubSeq(b, Len(b) - Len(a) + 1, Len(b)) = a

\* The step in which the user code on top of the stack returns.
UserCodeReturns == Top = "js" /\ ~Suffix(stack, stack')

\* The connection has been closed for good.
Dead == ~open /\ locked

\* Nothing runs and nothing will complete: only a new call from user code
\* can make the thread act again.
Quiescent == Idle /\ inflight = {}

QueueIds(q) == {q[i].id : i \in DOMAIN q}

(***************************************************************************)
(* C1  Mutual exclusion.  An operation that runs under the exclusive flag  *)
(* (close, exec, loadExtension, or one queued while serialize was on) is   *)
(* never in flight together with another operation: its body is called     *)
(* only when pending = 0 and nothing is in flight, and while it is in      *)
(* flight (locked, pending = 1) no body is called, by Schedule or Process. *)
(***************************************************************************)
C1_MutualExclusion ==
    /\ \A b \in Ops : b.excl => (Ops = {b} /\ locked /\ pending = 1)
    /\ Starting =>
          /\ TopFrame.call.excl => (pending = 0 /\ Ops = {})
          /\ \A b \in Ops : ~b.excl

\* Process is about to call, under the exclusive flag, a statement that was
\* queued while serialize was on, behind work that has completed.
C1_Witness ==
    /\ Starting /\ TopFrame.h = "Process"
    /\ TopFrame.call.kind = "statement" /\ TopFrame.call.excl
    /\ queue # <<>>

(***************************************************************************)
(* C2  No operation is lost.  Every scheduled operation is eventually      *)
(* dispatched or failed with the closed error.  When nothing runs and      *)
(* nothing is in flight no completion will ever call Process() again, so   *)
(* the claim needs the queue to be empty in every such state.              *)
(***************************************************************************)
C2_NoOperationLost == Quiescent => queue = <<>>

(***************************************************************************)
(* C3  FIFO within a class.  Of two operations of the same exclusivity     *)
(* class that are both dispatched, the one that came to Schedule first is  *)
(* dispatched first: no body is called for an operation that a later       *)
(* operation of its class has passed while it was waiting in the queue.    *)
(***************************************************************************)
C3_FifoWithinClass == Starting => ~TopFrame.call.passed

(***************************************************************************)
(* C4  Dead-connection flush completeness.  On a closed connection the     *)
(* Process() of the close completion empties the queue, and every call     *)
(* that leaves the queue gets an error outcome of its own: its callback    *)
(* is called with the closed error or, having no callback, an "error"      *)
(* event is emitted as it is removed.                                      *)
(***************************************************************************)
C4_Removed(c) ==
    /\ c.id \notin QueueIds(queue')
    /\ ~(Top' = "body" /\ Head(stack').call.id = c.id)

C4_Failed(c) ==
    /\ Top' = "js" /\ Head(stack').arg = "closed"
    /\ \/ c.cb /\ Head(stack').via = "callback" /\ Head(stack').call.id = c.id
       \/ ~c.cb /\ Head(stack').via = "event"

C4_FlushCompleteness ==
    /\ [](Dead /\ Idle => queue = <<>>)
    /\ [][\A i \in DOMAIN queue :
             C4_Removed(queue[i]) => C4_Failed(queue[i])]_vars

(***************************************************************************)
(* C5  Schedule on a closed connection (open = false, locked = true) fails *)
(* the operation on the spot: it is neither queued nor run; pending,       *)
(* locked, serialize and the queue are as before; and exactly one error    *)
(* outcome is produced: the callback with the closed error if there is a   *)
(* callback, else an "error" event.                                        *)
(***************************************************************************)
\* The step of a public method that passes a new baton to Schedule.
Scheduling == UserRuns /\ nextId' = nextId + 1

C5_OneErrorOutcome ==
    /\ Top' = "js"
    /\ Head(stack').h = "Schedule"
    /\ Head(stack').arg = "closed"
    /\ Head(stack').call.id = nextId
    /\ Head(stack').via = (IF Head(stack').call.cb THEN "callback" ELSE "event")
    /\ \/ Tail(stack') = stack
       \/ /\ Len(stack') = Len(stack) + 3
          /\ Suffix(stack, stack')
          /\ stack'[2].k = "call_process" /\ stack'[2].h = "Configure"
          /\ stack'[3].k = "ret" /\ stack'[3].h = "Configure"

C5_ScheduleOnClosed ==
    [][(Scheduling /\ Dead) =>
          /\ queue' = queue /\ pending' = pending /\ locked' = locked
          /\ serialize' = serialize /\ open' = open /\ closing' = closing
          /\ inflight' = inflight
          /\ C5_OneErrorOutcome]_vars

\* An operation without callback has just been refused while the calls
\* queued before the close are still waiting for their flush.
C5_Witness ==
    /\ Top = "js" /\ TopFrame.h = "Schedule" /\ TopFrame.via = "event"
    /\ Dead /\ queue # <<>>

(***************************************************************************)
(* C6  Serialize mode forces exclusivity.  An operation that comes to      *)
(* Schedule while serialize is on is alone in flight for as long as it is  *)
(* in flight, also when the mode is switched back in the meantime.         *)
(***************************************************************************)
C6_SerializeForcesExclusive ==
    /\ \A b \in Ops : b.must => Ops = {b}
    /\ Starting => \A b \in Ops : ~b.must

(***************************************************************************)
(* C7  Mode restore.  When the callback of serialize(fn) or                *)
(* parallelize(fn) has returned or thrown, serialize is what it was before *)
(* the call, whatever the nesting; serialize() without callback leaves     *)
(* serialize true and parallelize() leaves it false.                       *)
(***************************************************************************)
C7_Unscoped(mode) ==
    /\ UserRuns
    /\ IF mode THEN Becomes(Run(Serialize(S, FALSE)))
               ELSE Becomes(Run(Parallelize(S, FALSE)))

C8_ProcessAfterEveryHandler == skipped \subseteq {"Work_AfterOpen"}

(***************************************************************************)
(* C9  The assertions at the start of every exclusive body hold: when the  *)
(* body of close, exec, loadExtension or wait is called, by Schedule or by *)
(* Process, from the event loop or from inside a callback, then            *)
(* locked = true, open = true and pending = 0.                             *)
(***************************************************************************)
C9_BodyPreconditions ==
    /\ ~aborted
    /\ (Starting /\ TopFrame.call.kind \in ExclusiveKinds)
          => (locked /\ open /\ pending = 0)

\* close() called from inside a completion callback starts at once.
C9_Witness ==
    /\ Starting /\ TopFrame.h = "Schedule" /\ TopFrame.call.kind = "close"
    /\ \E i \in DOMAIN stack : stack[i].k = "js" /\ stack[i].via = "callback"

(***************************************************************************)
(* C10  Close outcome.  When a close completes, pending is decremented and *)
(* closing is cleared.  If it succeeded, open becomes false, locked stays  *)
(* true, a "close" event fires and Process() flushes the queue.  If it     *)
(* failed, open and locked stay true, no "close" event fires and the       *)
(* queue is left as it is.                                                 *)
(***************************************************************************)
CloseCompletes == \E b \in inflight : b.kind = "close" /\ b \notin inflight'

\* What Work_AfterClose tells user code first: success or the error.
C10_Succeeded == Head(stack').arg \in {"null", "close"}

C10_Completion ==
    CloseCompletes =>
       /\ pending' = pending - 1 /\ closing /\ ~closing'
       /\ locked /\ locked'
       /\ open /\ open' = ~C10_Succeeded
       /\ queue' = queue
       /\ Top' = "js" /\ Head(stack').h = "Work_AfterClose"
       /\ Head(stack').arg = "close" => ~Head(stack').call.cb

\* The callback (or "error" listener) of the close returns.
C10_Tail ==
    (UserCodeReturns /\ Len(stack) >= 2 /\ stack[2].k = "after_close") =>
       /\ queue' = queue /\ locked' = locked /\ open' = open
       /\ IF open
          THEN \A i \in DOMAIN stack' : stack'[i].arg # "close"
          ELSE Top' = "js" /\ Head(stack').arg = "close"

\* The listeners of "close" return: Process() flushes.
C10_Flush ==
    (UserCodeReturns /\ TopFrame.arg = "close") =>
       /\ ~open' /\ locked'
       /\ queue' = <<>> \/ (Top' = "js" /\ Head(stack').h = "Process")

C10_CloseOutcome ==
    /\ [][C10_Completion /\ C10_Tail /\ C10_Flush]_vars
    /\ [](Dead /\ Idle => queue = <<>>)

\* The "close" event is being delivered with two calls still queued.
C10_Witness == Top = "js" /\ TopFrame.arg = "close" /\ Len(queue) = 2

(***************************************************************************)
(* C11  Open gating order.  Every operation that comes to Schedule before  *)
(* the open has completed is queued; after a successful open these         *)
(* operations are dispatched in the order they came, and before any        *)
(* operation scheduled after open became true, those scheduled from the    *)
(* open callback or from a listener of "open" included.                    *)
(***************************************************************************)
C11_Queued ==
    (Scheduling /\ ~open /\ ~locked) =>
       /\ queue' = Append(queue, queue'[Len(queue')])
       /\ queue'[Len(queue')].id = nextId
       /\ Top' # "body"

C11_InOrder ==
    Starting =>
       \A i \in DOMAIN queue :
          queue[i].early =>
             /\ TopFrame.call.early
             /\ TopFrame.call.id < queue[i].id

C11_OpenGatingOrder == [][C11_Queued]_vars /\ []C11_InOrder

(***************************************************************************)
(* C12  Interrupt reaches the engine only while open = true and closing =  *)
(* false; with open = false it fails with the not-open error and with      *)
(* closing = true with the closing error.  In all three cases queue,       *)
(* pending, locked, serialize, open and closing are as before and the work *)
(* in flight stays in flight, so that each operation still decrements      *)
(* pending by one, once, when it completes.                                *)
(***************************************************************************)
InterruptReturns == Top # "out" /\ Top' = "out"

C12_Outcome ==
    /\ (Head(stack').arg = "sqlite3_interrupt") = (open /\ ~closing)
    /\ ~open => Head(stack').arg = "Database is not open"
    /\ (open /\ closing) => Head(stack').arg = "Database is closing"

C12_Completes(b) ==
    b \notin inflight' => (pending' = pending - 1 /\ inflight' = inflight \ {b})

C12_Interrupt ==
    /\ [][InterruptReturns =>
             /\ C12_Outcome
             /\ queue' = queue /\ pending' = pending /\ locked' = locked
             /\ serialize' = serialize /\ open' = open /\ closing' = closing
             /\ inflight' = inflight]_vars
    /\ [][\A b \in Ops : C12_Completes(b)]_vars

\* interrupt() has been refused while a close is in flight with calls queued
\* behind it.
C12_Witness ==
    /\ Top = "out" /\ TopFrame.arg = "Database is closing"
    /\ pending = 1 /\ queue # <<>>

(***************************************************************************)
(* C13  Hook registration is serialized with the operations: the body that *)
(* registers or unregisters the trace, profile or change relay never runs  *)
(* while another operation is in flight (pending > 0).                     *)
(***************************************************************************)
RelayKinds == {"trace", "profile", "change"}

C13_HooksSerialized ==
    (Starting /\ TopFrame.call.kind \in RelayKinds) =>
       (pending = 0 /\ Ops = {})

(***************************************************************************)
(* C14  Error propagation is a strict dual path.  A failed open, close,    *)
(* exec or loadExtension reports its error exactly once: to the            *)
(* operation's callback when it has one, else as an "error" event on the   *)
(* connection; never both, never neither.  A successful operation produces *)
(* no "error" event.                                                       *)
(***************************************************************************)
\* The step in which the completion handler of b runs, its status being ok.
C14_After(b, ok) ==
    /\ Idle
    /\ CASE b.kind = "open" -> Becomes(Run(Work_AfterOpen(S, b, ok)))
         [] b.kind = "close" -> Becomes(Run(Work_AfterClose(S, b, ok)))
         [] b.kind = "exec" -> Becomes(Run(Work_AfterExec(S, b, ok)))
         [] b.kind = "loadExtension" ->
               Becomes(Run(Work_AfterLoadExtension(S, b, ok)))
         [] OTHER -> FALSE

C14_NoEngineError == \A i \in DOMAIN stack' : stack'[i].arg # "engine"

C14_Delivered(b, ok) ==
    IF b.cb
    THEN /\ Top' = "js" /\ Head(stack').call = b
         /\ Head(stack').via = "callback"
         /\ Head(stack').arg = (IF ok THEN "null" ELSE "engine")
         /\ \A i \in 2..Len(stack') : stack'[i].k # "js"
    ELSE IF ok
         THEN C14_NoEngineError
         ELSE /\ Top' = "js" /\ Head(stack').call = b
              /\ Head(stack').via = "event"
              /\ Head(stack').arg = "engine"
              /\ \A i \in 2..Len(stack') : stack'[i].k # "js"

\* The callback or the "error" listener of a completion returns.
C14_Reported ==
    /\ UserCodeReturns
    /\ TopFrame.call.kind \in {"open", "close", "exec", "loadExtension"}
    /\ TopFrame.arg \in {"null", "engine"}

C14_ErrorDualPath ==
    /\ [][\A b \in inflight, ok \in BOOLEAN :
             C14_After(b, ok) => C14_Delivered(b, ok)]_vars
    /\ [][C14_Reported => C14_NoEngineError]_vars

\* A loadExtension without callback has failed: its error is with the
\* listeners of "error".
C14_Witness ==
    /\ Top = "js" /\ TopFrame.via = "event" /\ TopFrame.arg = "engine"
    /\ TopFrame.call.kind = "loadExtension" /\ queue # <<>>

(***************************************************************************)
(* C15  pending accounting.  pending is incremented once when the work of  *)
(* a dispatched operation is handed to a worker and decremented once when  *)
(* its completion handler runs: in every state pending >= 0 and pending is *)
(* the number of dispatched operations that are with a worker, so it is 0  *)
(* again when all of them have completed.  (The open the constructor       *)
(* starts is not dispatched by the scheduler and is not counted.)          *)
(***************************************************************************)
WorkerKinds == {"close", "exec", "loadExtension", "statement"}

C15_Submitted ==
    Starting =>
       IF TopFrame.call.kind \in WorkerKinds
       THEN /\ pending' = pending + 1
            /\ inflight' = inflight \cup {TopFrame.call}
            /\ TopFrame.call \notin inflight
       ELSE pending' = pending /\ inflight' = inflight

C15_Completed ==
    \A b \in Ops :
       b \notin inflight' => (pending' = pending - 1 /\ pending > 0)

C15_PendingAccounting ==
    /\ [](pending >= 0 /\ pending = Cardinality(Ops))
    /\ [][C15_Submitted /\ C15_Completed]_vars

\* Two statements are with workers and a third call waits for them.
C15_Witness == pending = 2 /\ Cardinality(Ops) = 2 /\ queue # <<>>

(***************************************************************************)
(* C16  Each scheduled operation is consumed exactly once: it is run at    *)
(* once by Schedule and never enters the queue, or it is popped and run by *)
(* Process, or it is failed with the closed error, by Schedule on the      *)
(* closed connection or by the flush.  No operation is dispatched twice    *)
(* and none is both dispatched and failed with the closed error.           *)
(***************************************************************************)
\* Where an operation can be: waiting in the queue; dispatched (its body
\* is being called, or its work is with a worker); being failed with the
\* closed error.
Dispatched(st, fl) ==
    {st[i].call.id : i \in {j \in DOMAIN st : st[j].k = "body"}}
       \cup {b.id : b \in {c \in fl : c.kind # "open"}}

Refused(st) ==
    {st[i].call.id :
        i \in {j \in DOMAIN st : /\ st[j].k = "js" /\ st[j].arg = "closed"
                                 /\ st[j].call.id # 0}}

C16_OnePlace ==
    /\ \A i, j \in DOMAIN queue : i # j => queue[i].id # queue[j].id
    /\ \A i, j \in DOMAIN stack :
          (i # j /\ stack[i].k = "body" /\ stack[j].k = "body")
             => stack[i].call.id # stack[j].call.id
    /\ \A i \in DOMAIN stack :
          stack[i].k = "body" => \A b \in inflight : b.id # stack[i].call.id
    /\ QueueIds(queue) \cap Dispatched(stack, inflight) = {}
    /\ QueueIds(queue) \cap Refused(stack) = {}
    /\ Dispatched(stack, inflight) \cap Refused(stack) = {}

C16_Once(id) ==
    /\ id \in Dispatched(stack, inflight)
          => id \notin QueueIds(queue') \cup Refused(stack')
    /\ id \in Refused(stack)
          => id \notin QueueIds(queue') \cup Dispatched(stack', inflight')
    /\ (id < nextId /\ id \notin QueueIds(queue) \cup Dispatched(stack, inflight))
          => id \notin QueueIds(queue') \cup Dispatched(stack', inflight')
    /\ (id = nextId /\ Scheduling) =>
          \/ /\ id \in QueueIds(queue')
             /\ id \notin Dispatched(stack', inflight') \cup Refused(stack')
          \/ /\ Top' = "body" /\ Head(stack').h = "Schedule"
             /\ Head(stack').call.id = id
             /\ id \notin QueueIds(queue') \cup Refused(stack')
          \/ /\ Top' = "js" /\ Head(stack').h = "Schedule"
             /\ Head(stack').arg = "closed" /\ Head(stack').call.id = id
             /\ id \notin QueueIds(queue') \cup Dispatched(stack', inflight')

\* The call leaves the queue: Process runs it, or the flush fails it.
C16_Leaves(c) ==
    c.id \notin QueueIds(queue') =>
       \/ /\ Top' = "body" /\ Head(stack').h = "Process"
          /\ Head(stack').call.id = c.id
       \/ /\ Dead /\ Top' = "js" /\ Head(stack').h = "Process"
          /\ Head(stack').arg = "closed"
          /\ IF c.cb
             THEN Head(stack').via = "callback" /\ Head(stack').call.id = c.id
             ELSE Head(stack').via = "event"

\* The part about "at most once" alone.
C16_AtMostOnce ==
    /\ []C16_OnePlace
    /\ [][\A id \in 1..MaxOps : C16_Once(id)]_vars

C16_ConsumedOnce ==
    /\ []C16_OnePlace
    /\ [][\A id \in 1..MaxOps : C16_Once(id)]_vars
    /\ [][\A i \in DOMAIN queue : C16_Leaves(queue[i])]_vars

(***************************************************************************)
(* C17  Process is idempotent.  When a handler's Process() has returned    *)
(* and the thread is back in the event loop, a second Process() right then *)
(* dispatches nothing, fails nothing and leaves queue, locked, pending,    *)
(* open and serialize as they are.                                         *)
(***************************************************************************)
HandlerOf(kind) ==
    CASE kind = "open" -> "Work_AfterOpen"
      [] kind = "close" -> "Work_AfterClose"
      [] kind = "exec" -> "Work_AfterExec"
      [] kind = "loadExtension" -> "Work_AfterLoadExtension"
      [] OTHER -> "Work_AfterStatement"

\* Handler h, returning in this step, has called Process() as its last
\* statement (Work_AfterOpen and Work_AfterClose do so on success only).
CalledProcess(h) ==
    CASE h = "Work_AfterOpen" -> open'
      [] h = "Work_AfterClose" -> ~open'
      [] OTHER -> TRUE

\* The step ends in the event loop, with the return of a handler that had
\* started in an earlier step or that runs from start to end in this one.
C17_ProcessReturned ==
    /\ ~aborted /\ stack' = <<>>
    /\ IF stack # <<>>
       THEN /\ stack[Len(stack)].k = "ret"
            /\ CalledProcess(stack[Len(stack)].h)
       ELSE \/ \E mode \in BOOLEAN :
                  Becomes(Run(IF mode THEN Serialize(S, FALSE)
                                      ELSE Parallelize(S, FALSE)))
            \/ \E b \in inflight :
                  b \notin inflight' /\ CalledProcess(HandlerOf(b.kind))
            \/ /\ nextId' = nextId + 1 /\ ~Dead
               /\ queue' # <<>>
               /\ queue'[Len(queue')].id = nextId
               /\ queue'[Len(queue')].kind \in ConfigOptions

C17_ProcessIdempotent ==
    [][C17_ProcessReturned => Run(Process(S')) = S']_vars

(***************************************************************************)
(* C18  The closed state is absorbing.  Once a close has succeeded         *)
(* (open = false, locked = true), open never becomes true again, locked    *)
(* never becomes false, no body is dispatched any more and pending stays   *)
(* 0, whatever calls follow.                                               *)
(***************************************************************************)
C18_Closed ==
    Dead => (pending = 0 /\ ~closing /\ Dispatched(stack, inflight) = {})

C18_Enters == (CloseCompletes /\ ~open') => (locked' /\ pending' = 0)

C18_Stays ==
    Dead => (~open' /\ locked' /\ pending' = 0
             /\ Dispatched(stack', inflight') = {})

C18_ClosedAbsorbing == []C18_Closed /\ [][C18_Enters /\ C18_Stays]_vars

\* A call made after the close has been refused through its callback.
C18_Witness ==
    /\ Dead /\ Top = "js" /\ TopFrame.h = "Schedule"
    /\ TopFrame.via = "callback" /\ queue = <<>> /\ nextId = MaxOps + 1

(***************************************************************************)
(* C19  No body is dispatched while the connection is not open: every      *)
(* body that Schedule or Process calls, the configure bodies included      *)
(* (they assert it), starts with open = true; none starts before the open  *)
(* has completed, after a failed open or after a successful close.         *)
(***************************************************************************)
C19_BodiesNeedOpen ==
    /\ ~aborted
    /\ Starting => open

\* Process calls the body of a limit or busyTimeout setting that was
\* queued before the open had completed.
C19_Witness ==
    /\ Starting /\ TopFrame.h = "Process" /\ TopFrame.call.early
    /\ TopFrame.call.kind \in {"busyTimeout", "limit"}

(***************************************************************************)
(* C20  No stall.  Whenever the owning thread is in the event loop, the    *)
(* connection is open and pending = 0, the queue is empty: queued work     *)
(* never stays undispatched on an open connection with nothing in flight.  *)
(***************************************************************************)
C20_NoStall == (Idle /\ open /\ pending = 0) => queue = <<>>

(***************************************************************************)
(* C21  The closing window.  closing is true exactly while a close is in   *)
(* flight (its work is with a worker), and then open = true, locked = true *)
(* and pending = 1: the close is the only operation in flight.  While      *)
(* closing is true no body is called and nothing else is handed to a       *)
(* worker, and every operation that comes to Schedule in that window is    *)
(* appended to the queue.                                                  *)
(***************************************************************************)
C21_CloseInFlight == \E b \in inflight : b.kind = "close"

C21_Window ==
    /\ closing = C21_CloseInFlight
    /\ closing =>
          /\ open /\ locked /\ pending = 1
          /\ Cardinality(Ops) = 1
          /\ ~Starting

C21_NothingDispatched ==
    closing =>
       Dispatched(stack', inflight') \subseteq Dispatched(stack, inflight)

C21_Enqueued ==
    (Scheduling /\ closing) =>
       /\ Len(queue') = Len(queue) + 1
       /\ SubSeq(queue', 1, Len(queue)) = queue
       /\ queue'[Len(queue')].id = nextId
       /\ Refused(stack') = Refused(stack)
       /\ closing' /\ pending' = pending /\ locked' = locked

C21_ClosingInvariant ==
    /\ []C21_Window
    /\ [][C21_NothingDispatched /\ C21_Enqueued]_vars

\* User code, called back while a close that Schedule has run at once from
\* inside it is in flight, has scheduled a statement and a setting since.
C21_Witness ==
    /\ closing /\ Top = "js"
    /\ \E b \in inflight :
          /\ b.kind = "close"
          /\ \E i, j \in DOMAIN queue :
                /\ queue[i].id > b.id /\ queue[i].kind = "statement"
                /\ queue[j].id > b.id /\ queue[j].kind \in ConfigOptions

(***************************************************************************)
(* C22  Permanent serialize mode.  When serialize is turned on before any  *)
(* operation is scheduled and is never turned off, at most one operation   *)
(* is in flight at any time (pending <= 1), and operations are dispatched  *)
(* one at a time: a body is called, by Schedule or by Process, only when   *)
(* nothing is in flight (pending = 0), the operation dispatched before     *)
(* having completed.                                                       *)
(***************************************************************************)
C22_PermanentSerialize ==
    /\ pending <= 1 /\ Cardinality(Ops) <= 1
    /\ Starting => (pending = 0 /\ Ops = {})
    /\ (nextId > 1 \/ queue # <<>>) => serialize

\* With a statement in flight (run at once by Schedule, locked = false)
\* user code has scheduled two more operations: both wait in the queue.
C22_Witness ==
    /\ serialize /\ ~locked /\ pending = 1 /\ Len(queue) = 2
    /\ \E b \in inflight : b.kind = "statement" /\ ~b.excl /\ ~b.early

====
